---------------------------- MODULE Spec2Model ----------------------------
(***************************************************************************)
(* Model of lambda/aws-text-to-sql/query_generator/custom_errors.py: the   *)
(* three exception classes of the text-to-SQL query generator.             *)
(*                                                                         *)
(* Python strings are TLA+ strings; \o, Len, SubSeq, Head and Tail are the *)
(* string operations.  An exception object is a record of its class, its   *)
(* BaseException.args tuple and its instance __dict__.                     *)
(***************************************************************************)
EXTENDS Naturals, Sequences, FiniteSets, TLC

VARIABLES
    heap,    \* heap[t]: the object allocated by invocation t, or NoObject
    frame,   \* frame[t]: invocation t's call: its position, class and argument
    module,     \* the names bound at module level of custom_errors.py
    inflight,   \* inflight[t]: how far t's raised instance is from the boundary
    responses   \* responses[t]: what the boundary handler has emitted for t

vars == <<heap, frame, module, inflight, responses>>

---------------------------------------------------------------------------
(* Bounds *)

\* longest detail string enumerated over Alphabet
MaxLen == 1
\* number of concurrent invocations
NumThreads == 2

\* number of requests whose failure is followed to the boundary
NumRequests == 1
\* number of intermediate layers between the raise and the boundary handler
Depth == 1

Threads == 1 .. NumThreads

Requests == 1 .. NumRequests

Alphabet == {"a", "."}

RECURSIVE StringsUpTo(_)
StringsUpTo(n) ==
    IF n = 0 THEN {""}
    ELSE LET shorter == StringsUpTo(n - 1)
         IN  shorter \cup {s \o c : s \in shorter, c \in Alphabet}

\* detail strings that repeat tokens of the templates themselves
TemplateTokens == {"{message}", "[503]"}

Details == StringsUpTo(MaxLen) \cup TemplateTokens

---------------------------------------------------------------------------
(* The classes and their message templates *)

Classes ==
    {"LLMNotLoadedException", "StrategyNotFoundException", "QueryGenerationException"}

\* an f-string is a sequence of literal parts and replacement fields
Lit(s) == [lit |-> s]
Field(n) == [field |-> n]

\* the templates with a slip in their literal text
LLMNotLoadedTemplate_NoSpace ==
    <<Lit("[501] The LLM"), Field("message"), Lit(" was not loaded correctly")>>

StrategyNotFoundTemplate_Does ==
    <<Lit("[503] The selected strategy "), Field("message"), Lit(" does not exist")>>

QueryGenerationTemplate_Code503 ==
    <<Lit("[503] Failed to generate query "), Field("message"), Lit(".")>>

StrategyNotFoundTemplate_Code501 ==
    <<Lit("[501] The selected strategy "), Field("message"), Lit(" doesn't exist")>>

QueryGenerationTemplate_NoPeriod ==
    <<Lit("[502] Failed to generate query "), Field("message")>>

LLMNotLoadedTemplate ==
    <<Lit("[501] The LLM "), Field("message"), Lit(" was not loaded correctly")>>

StrategyNotFoundTemplate ==
    <<Lit("[503] The selected strategy "), Field("message"), Lit(" doesn't exist")>>

QueryGenerationTemplate ==
    <<Lit("[502] Failed to generate query "), Field("message"), Lit(".")>>

\* faulty variant: the value's braces are doubled, as str.format escaping would
RECURSIVE EscapeBraces(_)
EscapeBraces(value) ==
    IF value = "" THEN ""
    ELSE LET c == Head(value)
         IN  (IF c \in {"{", "}"} THEN c \o c ELSE c) \o EscapeBraces(Tail(value))

FormatValue_Escaped(value) == EscapeBraces(value)

\* format(value, ""): str.__format__ with an empty format spec gives the
\* string itself, with no escaping and no second pass over its braces
FormatValue(value) == value

\* evaluation of an f-string: every part is rendered once, left to right, and
\* the pieces are joined
RECURSIVE JoinedStr(_, _)
JoinedStr(parts, locals) ==
    IF parts = <<>> THEN ""
    ELSE LET p == Head(parts)
             piece == IF "lit" \in DOMAIN p THEN p.lit
                      ELSE FormatValue(locals[p.field])
         IN  piece \o JoinedStr(Tail(parts), locals)

---------------------------------------------------------------------------
(* Objects *)

EmptyDict == [n \in {} |-> ""]

NoObject == [cls |-> "None", args |-> <<>>, dict |-> EmptyDict]

\* BaseException.__new__(cls, *args): a fresh object that already holds args
BaseExceptionNew(cls, args) == [cls |-> cls, args |-> args, dict |-> EmptyDict]

\* BaseException.__init__(self, *args): stores args
BaseExceptionInit(obj, args) == [obj EXCEPT !.args = args]

\* object.__setattr__(self, name, value) on a class with no __slots__
SetAttr(obj, name, value) == [obj EXCEPT !.dict = (name :> value) @@ obj.dict]

\* BaseException.__str__
Str(obj) ==
    IF Len(obj.args) = 0 THEN ""
    ELSE IF Len(obj.args) = 1 THEN obj.args[1]
    ELSE "(...)"    \* str(self.args); the constructors pass one argument

IdleFrame == [pc |-> "idle", cls |-> "None", message |-> ""]

---------------------------------------------------------------------------
(* Construction: cls(message) runs type.__call__, then the two statements   *)
(* of __init__; a thread switch can fall between any two of the steps      *)

\* invocation t's constructor has returned its instance
Returned(t) == frame[t].pc = "returned"

At(t, pc, cls) == frame[t].pc = pc /\ frame[t].cls = cls

Locals(t) == [message |-> frame[t].message]

Enter(cls, message) == [pc |-> "super", cls |-> cls, message |-> message]

\* LLMNotLoadedException(message): the object is allocated, __init__ entered
LLMNotLoadedException(t, message) ==
    /\ frame[t].pc = "idle"
    /\ heap' = [heap EXCEPT ![t] = BaseExceptionNew("LLMNotLoadedException", <<message>>)]
    /\ frame' = [frame EXCEPT ![t] = Enter("LLMNotLoadedException", message)]
    /\ UNCHANGED <<module, inflight, responses>>

\* super().__init__(message)
LLMNotLoadedException_super(t) ==
    /\ At(t, "super", "LLMNotLoadedException")
    /\ heap' = [heap EXCEPT ![t] = BaseExceptionInit(heap[t], <<frame[t].message>>)]
    /\ frame' = [frame EXCEPT ![t].pc = "message"]
    /\ UNCHANGED <<module, inflight, responses>>

\* faulty variant: the text is kept in a module-level name and every instance of the
\* class that already has a message is given the latest one
LLMNotLoadedException_message_Shared(t) ==
    /\ At(t, "message", "LLMNotLoadedException")
    /\ LET text == JoinedStr(LLMNotLoadedTemplate, Locals(t))
       IN  heap' = [u \in Threads |->
                      IF u = t \/ (heap[u].cls = "LLMNotLoadedException"
                                     /\ "message" \in DOMAIN heap[u].dict)
                      THEN SetAttr(heap[u], "message", text)
                      ELSE heap[u]]
    /\ frame' = [frame EXCEPT ![t].pc = "returned"]
    /\ module' = module \cup {"last_message"}
    /\ UNCHANGED <<inflight, responses>>

\* self.message = f"[501] The LLM {message} was not loaded correctly"
LLMNotLoadedException_message(t) ==
    /\ At(t, "message", "LLMNotLoadedException")
    /\ heap' = [heap EXCEPT ![t] =
                   SetAttr(heap[t], "message", JoinedStr(LLMNotLoadedTemplate, Locals(t)))]
    /\ frame' = [frame EXCEPT ![t].pc = "returned"]
    /\ UNCHANGED <<module, inflight, responses>>

\* StrategyNotFoundException(message): the object is allocated, __init__ entered
StrategyNotFoundException(t, message) ==
    /\ frame[t].pc = "idle"
    /\ heap' = [heap EXCEPT ![t] = BaseExceptionNew("StrategyNotFoundException", <<message>>)]
    /\ frame' = [frame EXCEPT ![t] = Enter("StrategyNotFoundException", message)]
    /\ UNCHANGED <<module, inflight, responses>>

\* faulty variant: the templated text is what reaches the base class
StrategyNotFoundException_super_Templated(t) ==
    /\ At(t, "super", "StrategyNotFoundException")
    /\ heap' = [heap EXCEPT ![t] =
                   BaseExceptionInit(heap[t],
                       <<JoinedStr(StrategyNotFoundTemplate, Locals(t))>>)]
    /\ frame' = [frame EXCEPT ![t].pc = "message"]
    /\ UNCHANGED <<module, inflight, responses>>

\* super().__init__(message)
StrategyNotFoundException_super(t) ==
    /\ At(t, "super", "StrategyNotFoundException")
    /\ heap' = [heap EXCEPT ![t] = BaseExceptionInit(heap[t], <<frame[t].message>>)]
    /\ frame' = [frame EXCEPT ![t].pc = "message"]
    /\ UNCHANGED <<module, inflight, responses>>

\* self.message = f"[503] The selected strategy {message} doesn't exist"
StrategyNotFoundException_message(t) ==
    /\ At(t, "message", "StrategyNotFoundException")
    /\ heap' = [heap EXCEPT ![t] =
                   SetAttr(heap[t], "message", JoinedStr(StrategyNotFoundTemplate, Locals(t)))]
    /\ frame' = [frame EXCEPT ![t].pc = "returned"]
    /\ UNCHANGED <<module, inflight, responses>>

\* QueryGenerationException(message): the object is allocated, __init__ entered
QueryGenerationException(t, message) ==
    /\ frame[t].pc = "idle"
    /\ heap' = [heap EXCEPT ![t] = BaseExceptionNew("QueryGenerationException", <<message>>)]
    /\ frame' = [frame EXCEPT ![t] = Enter("QueryGenerationException", message)]
    /\ UNCHANGED <<module, inflight, responses>>

\* super().__init__(message)
QueryGenerationException_super(t) ==
    /\ At(t, "super", "QueryGenerationException")
    /\ heap' = [heap EXCEPT ![t] = BaseExceptionInit(heap[t], <<frame[t].message>>)]
    /\ frame' = [frame EXCEPT ![t].pc = "message"]
    /\ UNCHANGED <<module, inflight, responses>>

\* self.message = f"[502] Failed to generate query {message}."
QueryGenerationException_message(t) ==
    /\ At(t, "message", "QueryGenerationException")
    /\ heap' = [heap EXCEPT ![t] =
                   SetAttr(heap[t], "message", JoinedStr(QueryGenerationTemplate, Locals(t)))]
    /\ frame' = [frame EXCEPT ![t].pc = "returned"]
    /\ UNCHANGED <<module, inflight, responses>>

Construct(t) ==
    \/ \E message \in Details : LLMNotLoadedException(t, message)
    \/ LLMNotLoadedException_super(t)
    \/ LLMNotLoadedException_message(t)
    \/ \E message \in Details : StrategyNotFoundException(t, message)
    \/ StrategyNotFoundException_super(t)
    \/ StrategyNotFoundException_message(t)
    \/ \E message \in Details : QueryGenerationException(t, message)
    \/ QueryGenerationException_super(t)
    \/ QueryGenerationException_message(t)

---------------------------------------------------------------------------
(* Specification of the module alone: concurrent constructions *)

NoFlight == [layer |-> 0, wraps |-> 0, raised |-> NoObject]

Init ==
    /\ heap = [t \in Threads |-> NoObject]
    /\ frame = [t \in Threads |-> IdleFrame]
    /\ module = Classes
    /\ inflight = [t \in Threads |-> NoFlight]
    /\ responses = [t \in Threads |-> <<>>]

Next == \E t \in Threads : Construct(t)

Spec == Init /\ [][Next]_vars

---------------------------------------------------------------------------
(* A holder of a returned instance assigns to one of its attributes.  The   *)
(* classes declare no __slots__ and no __setattr__, so the assignment is  *)
(* the one __init__ itself uses for self.message.                          *)

AssignedNames == {"message"}

AssignedValues == {"overwritten"}

HolderSetAttr(t, name, value) ==
    /\ Returned(t)
    /\ heap' = [heap EXCEPT ![t] = SetAttr(heap[t], name, value)]
    /\ UNCHANGED <<frame, module, inflight, responses>>

NextHolder ==
    \/ \E t \in Threads : Construct(t)
    \/ \E t \in Threads, name \in AssignedNames, value \in AssignedValues :
           HolderSetAttr(t, name, value)

SpecHolder == Init /\ [][NextHolder]_vars

---------------------------------------------------------------------------
(* Propagation of a raised instance to the boundary handler, as the design  *)
(* describes it: the instance is raised where the failure is detected,     *)
(* passes the intermediate layers, which may wrap it, and is consumed by   *)
(* the boundary handler, which surfaces its message.                       *)

\* raise instance
Raise(r) ==
    /\ Returned(r)
    /\ frame' = [frame EXCEPT ![r].pc = "raised"]
    /\ inflight' = [inflight EXCEPT ![r] = [layer |-> Depth, wraps |-> 0, raised |-> heap[r]]]
    /\ UNCHANGED <<heap, module, responses>>

\* faulty variant: an intermediate layer catches the failure and carries on
Unwind_Swallow(r) ==
    /\ frame[r].pc = "raised"
    /\ inflight[r].layer > 0
    /\ frame' = [frame EXCEPT ![r].pc = "returned"]
    /\ inflight' = [inflight EXCEPT ![r].layer = @ - 1]
    /\ UNCHANGED <<heap, module, responses>>

\* an intermediate layer lets the failure pass
Unwind(r) ==
    /\ frame[r].pc = "raised"
    /\ inflight[r].layer > 0
    /\ inflight' = [inflight EXCEPT ![r].layer = @ - 1]
    /\ UNCHANGED <<heap, frame, module, responses>>

\* an intermediate layer wraps the failure; the original instance is the
\* wrapper's cause and is left as it is
Wrap(r) ==
    /\ frame[r].pc = "raised"
    /\ inflight[r].layer > 0
    /\ inflight' = [inflight EXCEPT ![r].layer = @ - 1, ![r].wraps = @ + 1]
    /\ UNCHANGED <<heap, frame, module, responses>>

\* the boundary handler consumes the failure and surfaces its message
Handle(r) ==
    /\ frame[r].pc = "raised"
    /\ inflight[r].layer = 0
    /\ frame' = [frame EXCEPT ![r].pc = "handled"]
    /\ responses' = [responses EXCEPT ![r] = Append(@, [body |-> heap[r].dict["message"]])]
    /\ UNCHANGED <<heap, module, inflight>>

Propagate(r) == Unwind(r) \/ Wrap(r)

NextProp ==
    \/ \E r \in Requests : Construct(r)
    \/ \E r \in Requests : Raise(r)
    \/ \E r \in Requests : Unwind(r)
    \/ \E r \in Requests : Wrap(r)
    \/ \E r \in Requests : Handle(r)

\* propagation is synchronous: a raised failure keeps unwinding
SpecProp ==
    /\ Init
    /\ [][NextProp]_vars
    /\ \A r \in Requests : WF_vars(Propagate(r)) /\ WF_vars(Handle(r))

---------------------------------------------------------------------------
(* Properties of construction, checked under Spec *)

Message(t) == heap[t].dict["message"]

Detail(t) == frame[t].message

Built(t, cls) == Returned(t) /\ frame[t].cls = cls

\* the text the documented templates put before and after the detail
DocPrefix(cls) ==
    CASE cls = "LLMNotLoadedException" -> "[501] The LLM "
      [] cls = "StrategyNotFoundException" -> "[503] The selected strategy "
      [] cls = "QueryGenerationException" -> "[502] Failed to generate query "

DocSuffix(cls) ==
    CASE cls = "LLMNotLoadedException" -> " was not loaded correctly"
      [] cls = "StrategyNotFoundException" -> " doesn't exist"
      [] cls = "QueryGenerationException" -> "."

\* the documented code of each kind, as the digits the message shows
DocCode(cls) ==
    CASE cls = "LLMNotLoadedException" -> "501"
      [] cls = "StrategyNotFoundException" -> "503"
      [] cls = "QueryGenerationException" -> "502"

\* the first five characters of a message: its bracketed number
Tag(msg) == SubSeq(msg, 1, 5)

\* C1: every returned LLMNotLoadedException built from detail m has message
\* exactly "[501] The LLM " + m + " was not loaded correctly".
C1_LLMNotLoadedMessage ==
    \A t \in Threads :
        Built(t, "LLMNotLoadedException") =>
            Message(t) = "[501] The LLM " \o Detail(t) \o " was not loaded correctly"

\* two returned LLMNotLoadedException instances, one built from the empty
\* detail and one from a non-empty detail
C1_Witness ==
    \E t, u \in Threads :
        /\ Built(t, "LLMNotLoadedException") /\ Detail(t) = ""
        /\ Built(u, "LLMNotLoadedException") /\ Detail(u) = "a"
        /\ Message(u) = "[501] The LLM a was not loaded correctly"

\* C2: every returned StrategyNotFoundException built from detail s has
\* message exactly "[503] The selected strategy " + s + " doesn't exist".
C2_StrategyNotFoundMessage ==
    \A t \in Threads :
        Built(t, "StrategyNotFoundException") =>
            Message(t) = "[503] The selected strategy " \o Detail(t) \o " doesn't exist"

C2_Witness ==
    \E t, u \in Threads :
        /\ Built(t, "StrategyNotFoundException") /\ Detail(t) = ""
        /\ Built(u, "StrategyNotFoundException") /\ Detail(u) = "a"
        /\ Message(u) = "[503] The selected strategy a doesn't exist"

\* C3: every returned QueryGenerationException built from detail d has message
\* exactly "[502] Failed to generate query " + d + ".": one period follows the
\* detail whatever the detail ends with.
C3_QueryGenerationMessage ==
    \A t \in Threads :
        Built(t, "QueryGenerationException") =>
            /\ Message(t) = "[502] Failed to generate query " \o Detail(t) \o "."
            /\ Len(Message(t)) = Len("[502] Failed to generate query ") + Len(Detail(t)) + 1

\* a returned QueryGenerationException whose detail itself ends with a period,
\* next to one built from the empty detail
C3_Witness ==
    \E t, u \in Threads :
        /\ Built(t, "QueryGenerationException") /\ Detail(t) = "."
        /\ Message(t) = "[502] Failed to generate query .."
        /\ Built(u, "QueryGenerationException") /\ Detail(u) = ""

\* the documented integer code of each kind
DocCodeNumber(cls) ==
    CASE cls = "LLMNotLoadedException" -> 501
      [] cls = "StrategyNotFoundException" -> 503
      [] cls = "QueryGenerationException" -> 502

C5_TotalVerbatim ==
    \A t \in Threads :
        /\ frame[t].pc = "idle" =>
              \A d \in Details :
                  /\ ENABLED LLMNotLoadedException(t, d)
                  /\ ENABLED StrategyNotFoundException(t, d)
                  /\ ENABLED QueryGenerationException(t, d)
        /\ frame[t].pc \in {"super", "message"} => ENABLED Construct(t)
        /\ frame[t].pc \in {"idle", "super", "message", "returned"}
        /\ Returned(t) =>
              LET pre == DocPrefix(frame[t].cls)
                  suf == DocSuffix(frame[t].cls)
                  msg == Message(t)
              IN  /\ Len(msg) = Len(pre) + Len(Detail(t)) + Len(suf)
                  /\ SubSeq(msg, 1, Len(pre)) = pre
                  /\ SubSeq(msg, Len(pre) + 1, Len(pre) + Len(Detail(t))) = Detail(t)
                  /\ SubSeq(msg, Len(pre) + Len(Detail(t)) + 1, Len(msg)) = suf

\* instances returned for the detail "{message}", the template's own
\* replacement field, and for the empty detail
C5_Witness ==
    \E t, u \in Threads :
        /\ Built(t, "LLMNotLoadedException") /\ Detail(t) = "{message}"
        /\ Message(t) = "[501] The LLM {message} was not loaded correctly"
        /\ Built(u, "StrategyNotFoundException") /\ Detail(u) = ""

\* the kind a bracketed number stands for
KindOfTag(tag) ==
    CASE tag = "[501]" -> "LLMNotLoadedException"
      [] tag = "[503]" -> "StrategyNotFoundException"
      [] tag = "[502]" -> "QueryGenerationException"
      [] OTHER -> "None"

\* C9: messages tell the kinds apart: instances of different kinds never have
\* equal messages, the bracketed number at the start of a message names the
\* kind of its instance, and within a kind different details give different
\* messages.
C9_Distinguishable ==
    \A t, u \in Threads :
        (Returned(t) /\ Returned(u)) =>
            /\ KindOfTag(Tag(Message(t))) = frame[t].cls
            /\ frame[t].cls # frame[u].cls => Message(t) # Message(u)
            /\ (frame[t].cls = frame[u].cls /\ Detail(t) # Detail(u)) =>
                   Message(t) # Message(u)

\* two kinds built from one detail, the detail being another kind's tag
C9_Witness ==
    \E t, u \in Threads :
        /\ Built(t, "LLMNotLoadedException") /\ Detail(t) = "[503]"
        /\ Built(u, "StrategyNotFoundException") /\ Detail(u) = "[503]"
        /\ Message(t) # Message(u)

\* C10: the base Exception receives the raw detail: args is the one-tuple of
\* the detail, str() of the instance is the detail, and it differs from the
\* message attribute, which holds the "[code] ..." text: the string form is
\* shorter than message by the whole literal text of the template.
C10_ArgsRawDetail ==
    \A t \in Threads :
        Returned(t) =>
            /\ heap[t].args = <<Detail(t)>>
            /\ Str(heap[t]) = Detail(t)
            /\ Str(heap[t]) # Message(t)
            /\ Tag(Message(t)) = "[" \o DocCode(frame[t].cls) \o "]"
            /\ Len(Message(t)) =
                   Len(Str(heap[t])) + Len(DocPrefix(frame[t].cls))
                                     + Len(DocSuffix(frame[t].cls))

C10_Witness ==
    \E t \in Threads :
        /\ Built(t, "StrategyNotFoundException")
        /\ Detail(t) = "a"
        /\ Str(heap[t]) = "a"
        /\ Message(t) = "[503] The selected strategy a doesn't exist"

\* C7: construction touches nothing shared: no step changes the module's
\* names, a step leaves the object of every invocation other than the one
\* taking it unchanged, and under every interleaving a returned message is the
\* documented text for its own kind and detail.
C7_NoSharedState ==
    /\ [][/\ module' = module
          /\ \A t \in Threads : frame'[t] = frame[t] => heap'[t] = heap[t]]_vars
    /\ [](\A t \in Threads :
            Returned(t) =>
                Message(t) = DocPrefix(frame[t].cls) \o Detail(t) \o DocSuffix(frame[t].cls))

\* an instance has been returned while another invocation of the same class,
\* with a different detail, is between its two statements
C7_Witness ==
    \E t, u \in Threads :
        /\ t # u
        /\ Built(t, "LLMNotLoadedException")
        /\ At(u, "message", "LLMNotLoadedException")
        /\ Detail(t) # Detail(u)
        /\ heap[u].dict = EmptyDict

---------------------------------------------------------------------------
(* Properties of instances in the hands of their holders *)

\* the message construction computes for invocation t
ConstructedMessage(t) ==
    DocPrefix(frame[t].cls) \o Detail(t) \o DocSuffix(frame[t].cls)

---------------------------------------------------------------------------
(* Properties of propagation *)

=============================================================================
